---- MODULE Spec2Model ----
(***************************************************************************)
(* mongodol: a pymongo collection seen as a key-value store.               *)
(*                                                                         *)
(* The collection is a sequence of documents in natural (insertion) order. *)
(* A document and every key / value / filter mapping is a function from a  *)
(* subset of Fields to field values.  `_id` values are integers (0 is the  *)
(* falsy identity), `color` and `price` values are strings; a nested       *)
(* mapping value such as {'$gt': 10} is written as the string OpValue.     *)
(***************************************************************************)
EXTENDS Integers, Sequences, FiniteSets, TLC

VARIABLES
    coll,        \* the pymongo collection (self._mgc): sequence of documents
    filt,        \* self._filt, the store's scope predicate
    kind,        \* which persister class the store is
    nextId,      \* number of identities the backend has generated so far
    last,        \* the call just made: method name and arguments
    prev,        \* the collection just before that call
    raw_result,  \* what the wrapped method returned (acknowledgement or raise)
    result,      \* what the caller got back
    pending      \* the Multiple-policy set calls in flight, one per writer

vars == <<coll, filt, kind, nextId, last, prev, raw_result, result, pending>>

----------------------------------------------------------------------------
(* Bounds *)

MaxDocs == 2
MaxAutoIds == 2

----------------------------------------------------------------------------
(* Documents and mappings *)

ID_KEY == "_id"

EmptyMap == [f \in {} |-> 0]

\* first automatically generated identity (stands for an ObjectId; truthy)
AutoIdBase == 100

\* a value that is itself a mapping whose key starts with '$'
OpValue == "{'$gt': 10}"

\* dict(d, **v): the entries of v win over those of d
dict_update(d, v) == v @@ d

RECURSIVE merge_with_filt_from(_, _)
merge_with_filt_from(d, args) ==
    IF args = <<>> THEN d
    ELSE merge_with_filt_from(dict_update(d, Head(args)), Tail(args))

\* MongoCollectionReader._merge_with_filt(*args)
merge_with_filt(f, args) == merge_with_filt_from(f, args)

\* MongoCollectionCollection._merge_with_filt(obj)
collection_merge_with_filt(f, obj) == dict_update(obj, f)

----------------------------------------------------------------------------
(* The backend: pymongo.collection.Collection *)

\* equality match of a document against a filter document
Matches(doc, f) == \A x \in DOMAIN f : x \in DOMAIN doc /\ doc[x] = f[x]

find(c, f) == SelectSeq(c, LAMBDA d : Matches(d, f))

count_documents(c, f) == Len(find(c, f))

MatchIdx(c, f) == {i \in 1..Len(c) : Matches(c[i], f)}

FirstIdx(c, f) == CHOOSE i \in MatchIdx(c, f) : \A j \in MatchIdx(c, f) : i <= j

RemoveAt(c, i) == [j \in 1..(Len(c) - 1) |-> IF j < i THEN c[j] ELSE c[j + 1]]

Ids(c) == {c[i][ID_KEY] : i \in 1..Len(c)}

NoId == -1

Ack(type) ==
    [type |-> type, inserted_id |-> NoId, inserted_ids |-> <<>>, n |-> 0,
     inserted_count |-> 0, upserted_count |-> 0, modified_count |-> 0,
     deleted_count |-> 0]

Raise(exc) == [Ack("raise") EXCEPT !.type = exc]

Exceptions ==
    {"KeyError", "ValueError", "AssertionError", "NotImplementedError",
     "DuplicateKeyError", "WriteError", "BulkWriteError", "TypeError",
     "AttributeError", "OperationFailure", "InvalidOperation", "RuntimeError"}

IsRaise(r) == r.type \in Exceptions

Ret(c, ack, nid) == [coll |-> c, ack |-> ack, nextId |-> nid]

\* the document as stored: a missing _id is generated by the driver
WithId(doc, nid) ==
    IF ID_KEY \in DOMAIN doc THEN doc ELSE (ID_KEY :> (AutoIdBase + nid)) @@ doc

NextIdAfter(doc, nid) == IF ID_KEY \in DOMAIN doc THEN nid ELSE nid + 1

insert_one(c, doc, nid) ==
    LET d == WithId(doc, nid) IN
    IF d[ID_KEY] \in Ids(c)
    THEN Ret(c, Raise("DuplicateKeyError"), NextIdAfter(doc, nid))
    ELSE Ret(Append(c, d),
             [Ack("InsertOneResult") EXCEPT !.inserted_id = d[ID_KEY]],
             NextIdAfter(doc, nid))

\* ordered insert: documents go in one by one until the first failure
RECURSIVE insert_many_from(_, _, _, _)
insert_many_from(c, docs, nid, done) ==
    IF docs = <<>>
    THEN Ret(c, [Ack("InsertManyResult") EXCEPT !.inserted_ids = done], nid)
    ELSE LET d == WithId(Head(docs), nid)
             n2 == NextIdAfter(Head(docs), nid) IN
         IF d[ID_KEY] \in Ids(c)
         THEN Ret(c, Raise("BulkWriteError"), n2)
         ELSE insert_many_from(Append(c, d), Tail(docs), n2, Append(done, d[ID_KEY]))

insert_many(c, docs, nid) ==
    IF docs = <<>>
    THEN Ret(c, Raise("TypeError"), nid)
    ELSE insert_many_from(c, docs, nid, <<>>)

delete_one(c, f, nid) ==
    IF MatchIdx(c, f) = {}
    THEN Ret(c, Ack("DeleteResult"), nid)
    ELSE Ret(RemoveAt(c, FirstIdx(c, f)), [Ack("DeleteResult") EXCEPT !.n = 1], nid)

delete_many(c, f, nid) ==
    Ret(SelectSeq(c, LAMBDA d : ~Matches(d, f)),
        [Ack("DeleteResult") EXCEPT !.n = count_documents(c, f)], nid)

\* replace_one(filter, replacement, upsert=True)
replace_one(c, f, replacement, nid) ==
    IF MatchIdx(c, f) # {}
    THEN LET i == FirstIdx(c, f) IN
         IF ID_KEY \in DOMAIN replacement /\ replacement[ID_KEY] # c[i][ID_KEY]
         THEN Ret(c, Raise("WriteError"), nid)
         ELSE Ret([c EXCEPT ![i] = (ID_KEY :> c[i][ID_KEY]) @@ replacement],
                  [Ack("UpdateResult") EXCEPT !.n = 1], nid)
    ELSE IF /\ ID_KEY \in DOMAIN f
            /\ ID_KEY \in DOMAIN replacement
            /\ replacement[ID_KEY] # f[ID_KEY]
         THEN Ret(c, Raise("WriteError"), nid)
         ELSE LET d == WithId(replacement, nid) IN
              IF d[ID_KEY] \in Ids(c)
              THEN Ret(c, Raise("DuplicateKeyError"), NextIdAfter(replacement, nid))
              ELSE Ret(Append(c, d), [Ack("UpdateResult") EXCEPT !.n = 1],
                       NextIdAfter(replacement, nid))

----------------------------------------------------------------------------
(* Result normalisation *)

WriteOpResult(n, has_ids) ==
    [type |-> "WriteOpResult", n |-> n, ok |-> (n > 0), has_ids |-> has_ids]

\* Python truthiness of an identity / of a list of identities
Truthy(id) == id # 0

\* trans.normalize_result: result_mapper
result_mapper(raw) ==
    IF IsRaise(raw) THEN raw
    ELSE IF raw.type = "None" THEN raw
    ELSE IF raw.type = "InsertOneResult" /\ Truthy(raw.inserted_id)
         THEN WriteOpResult(1, TRUE)
    ELSE IF raw.type = "InsertManyResult" /\ raw.inserted_ids # <<>>
         THEN WriteOpResult(Len(raw.inserted_ids), TRUE)
    ELSE IF raw.type \in {"DeleteResult", "UpdateResult"}
         THEN WriteOpResult(raw.n, FALSE)
    ELSE IF raw.type = "BulkWriteResult"
         THEN WriteOpResult(raw.inserted_count + raw.upserted_count
                            + raw.modified_count + raw.deleted_count, FALSE)
    ELSE Raise("NotImplementedError")

\* decorators.normalize_result: result_mapper
decorators_result_mapper(raw) ==
    IF IsRaise(raw) THEN raw
    ELSE IF raw.type = "InsertOneResult" /\ Truthy(raw.inserted_id)
         THEN WriteOpResult(1, TRUE)
    ELSE IF raw.type = "InsertManyResult" /\ raw.inserted_ids # <<>>
         THEN WriteOpResult(Len(raw.inserted_ids), TRUE)
    ELSE IF raw.type \in {"DeleteResult", "UpdateResult"}
         THEN WriteOpResult(raw.n, FALSE)
    ELSE IF raw.type = "BulkWriteResult"
         THEN WriteOpResult(raw.inserted_count + raw.upserted_count
                            + raw.modified_count + raw.deleted_count, FALSE)
    ELSE Raise("NotImplementedError")

----------------------------------------------------------------------------
(* MongoCollectionPersister *)

\* the validation the persisters' callers expect of _build_doc
HasOperatorShapedValue(doc) ==
    \E x \in DOMAIN doc : x # ID_KEY /\ doc[x] = OpValue

build_doc(f, args) ==
    LET doc == merge_with_filt(f, args) IN
    [raises |-> HasOperatorShapedValue(doc), doc |-> doc]

\* MongoCollectionPersister.__setitem__
\* (the merged document goes to the driver as it is; a nested mapping with
\*  a '$' key is a storable value for the backend)
setitem(c, f, k, v, nid) ==
    replace_one(c, merge_with_filt(f, <<k>>), merge_with_filt(f, <<k, v>>), nid)

\* __delitem__ without its guard on the empty key
delitem_unguarded(c, f, k, nid) == delete_one(c, merge_with_filt(f, <<k>>), nid)

\* MongoCollectionPersister.__delitem__
delitem(c, f, k, nid) ==
    IF Cardinality(DOMAIN k) > 0
    THEN delete_one(c, merge_with_filt(f, <<k>>), nid)
    ELSE Ret(c, Raise("KeyError"), nid)

\* MongoCollectionPersister.append
append(c, f, v, nid) == insert_one(c, merge_with_filt(f, <<v>>), nid)

\* MongoCollectionPersister.extend
extend(c, f, values, nid) ==
    IF values # <<>>
    THEN insert_many(c, [i \in 1..Len(values) |-> merge_with_filt(f, <<values[i]>>)], nid)
    ELSE Ret(c, Ack("None"), nid)

\* MongoCollectionMultipleDocsPersister.__setitem__
\* (single: v is one mapping; otherwise v is the list vals of mappings.
\*  A mapping is itself a Collection, so _v is always v, and iterating a
\*  mapping yields its field names.)
multiple_setitem(c, f, k, vals, single, nid) ==
    LET d == delete_many(c, merge_with_filt(f, <<k>>), nid) IN
    IF single
    THEN IF vals[1] = EmptyMap
         THEN insert_many(d.coll, <<>>, nid)
         ELSE Ret(d.coll, Raise("AssertionError"), nid)
    ELSE IF \E i \in 1..Len(vals) : build_doc(f, <<k, vals[i]>>).raises
         THEN Ret(d.coll, Raise("ValueError"), nid)
         ELSE insert_many(d.coll,
                          [i \in 1..Len(vals) |-> build_doc(f, <<k, vals[i]>>).doc],
                          nid)

\* what the caller of store.<op> gets back, given what the method body did
Returned(knd, op, raw) ==
    IF knd = "base" THEN result_mapper(raw)
    ELSE IF knd = "multiple" /\ op = "set" THEN raw
    ELSE result_mapper(result_mapper(raw))

----------------------------------------------------------------------------
(* Reading *)

key_fields == {ID_KEY}

\* data_fields=None: {k: False for k in key_fields}
data_fields == [x \in key_fields |-> FALSE]

\* the backend's projection of a document
project(doc, projection) ==
    IF \E x \in DOMAIN projection : projection[x]
    THEN [x \in {y \in DOMAIN doc :
                    \/ (y \in DOMAIN projection /\ projection[y])
                    \/ (y = ID_KEY /\ y \notin DOMAIN projection)} |-> doc[x]]
    ELSE [x \in {y \in DOMAIN doc : y \notin DOMAIN projection} |-> doc[x]]

\* MongoCollectionReader.__getitem__
getitem(c, f, k) ==
    LET hits == find(c, merge_with_filt(f, <<k>>)) IN
    [i \in 1..Len(hits) |-> project(hits[i], data_fields)]

\* MongoCollectionReader.__contains__
contains(c, f, k) == find(c, merge_with_filt(f, <<k>>)) # <<>>

\* MongoCollectionReader.__len__
len(c, f) == count_documents(c, f)

\* what a read hands back: one document, a sequence of documents, or a raise
\* (consumed: how many documents were pulled out of the cursor)
Fetched(type, doc, docs, consumed) ==
    [type |-> type, doc |-> doc, docs |-> docs, consumed |-> consumed]

\* the first document of the cursor, whatever follows it
single_value_fetch_unchecked(cursor) ==
    IF Len(cursor) >= 1
    THEN Fetched("doc", cursor[1], <<>>, 1)
    ELSE Fetched("KeyError", EmptyMap, <<>>, 0)

\* PostGet.single_value_fetch_with_unicity_validation
single_value_fetch_with_unicity_validation(cursor) ==
    IF Len(cursor) >= 1
    THEN IF Len(cursor) >= 2
         THEN Fetched("KeyNotUniqueError", EmptyMap, <<>>, 2)
         ELSE Fetched("doc", cursor[1], <<>>, 1)
    ELSE Fetched("KeyError", EmptyMap, <<>>, 0)

\* PostGet.single_value_fetch_without_unicity_validation
single_value_fetch_without_unicity_validation(cursor) ==
    IF Len(cursor) >= 1
    THEN Fetched("doc", cursor[1], <<>>, 1)
    ELSE Fetched("KeyError", EmptyMap, <<>>, 0)

\* ObjOfData.all_docs_fetch(cursor, doc_collector=list)
all_docs_fetch(cursor) == Fetched("list", EmptyMap, cursor, Len(cursor))

\* the cursor itself, nothing pulled out of it yet
Cursor(docs) == Fetched("cursor", EmptyMap, docs, 0)

unique_getitem(c, f, k) ==
    single_value_fetch_with_unicity_validation(getitem(c, f, k))

\* store[k] on a store of the given class: __getitem__ then the class's postget
policy_getitem(knd, c, f, k) ==
    IF knd = "unique" THEN unique_getitem(c, f, k)
    ELSE IF knd = "first"
         THEN single_value_fetch_without_unicity_validation(getitem(c, f, k))
    ELSE IF knd = "multiple" THEN all_docs_fetch(getitem(c, f, k))
    ELSE Cursor(getitem(c, f, k))

----------------------------------------------------------------------------
(* MongoCollectionCollection: a view with find modifiers *)

MaxSkip == 1
MaxLimit == 1

\* the limit modifier was not given to the view
NoLimit == -1

Skips == 0..MaxSkip

Limits == {NoLimit} \cup 0..MaxLimit

Drop(seq, n) == SubSeq(seq, n + 1, Len(seq))

Take(seq, n) == SubSeq(seq, 1, IF n < Len(seq) THEN n ELSE Len(seq))

\* mgc.find(filter=, skip=, limit=): a limit of 0 is no limit
find_with(c, f, skip, limit) ==
    LET rest == Drop(find(c, f), skip) IN
    IF limit = NoLimit \/ limit = 0 THEN rest ELSE Take(rest, limit)

Counted(n) == [type |-> "int", n |-> n]

\* mgc.count_documents(filter=, skip=, limit=): the pipeline
\* $match, $skip, $limit, $group; the $limit stage needs a positive number
count_documents_with(c, f, skip, limit) ==
    IF limit = 0
    THEN Raise("OperationFailure")
    ELSE LET rest == Drop(find(c, f), skip) IN
         Counted(Len(IF limit = NoLimit THEN rest ELSE Take(rest, limit)))

\* iteration that leaves the view's filter out of the query
view_iter_unscoped(c, f, skip, limit) == Cursor(find_with(c, EmptyMap, skip, limit))

\* MongoCollectionCollection.__iter__
view_iter(c, f, skip, limit) == Cursor(find_with(c, f, skip, limit))

\* MongoCollectionCollection.__len__ with _count_kwargs
view_len(c, f, skip, limit) == count_documents_with(c, f, skip, limit)

Answer(value, consumed) == [type |-> "bool", value |-> value, consumed |-> consumed]

\* next(cursor, end_of_cursor) is not end_of_cursor
NotExhausted(cursor) == Answer(cursor # <<>>, IF cursor # <<>> THEN 1 ELSE 0)

\* MongoCollectionCollection.__contains__
view_contains(c, f, k) == NotExhausted(find(c, collection_merge_with_filt(f, k)))

\* MongoCollectionReader.__contains__, as the caller sees it
reader_contains(c, f, k) == NotExhausted(find(c, merge_with_filt(f, <<k>>)))

\* self._key_projection for the given key_fields
key_projection(kf) ==
    IF ID_KEY \in kf
    THEN [x \in kf |-> TRUE]
    ELSE [x \in kf \cup {ID_KEY} |-> x # ID_KEY]

KeyFieldInputs == {{ID_KEY}, {"color"}}

\* MongoCollectionReader.__iter__
reader_iter(c, f, kf) ==
    LET hits == find(c, f) IN
    Cursor([i \in 1..Len(hits) |-> project(hits[i], key_projection(kf))])

----------------------------------------------------------------------------
(* MongoValuesView and MongoItemsView *)

\* MongoValuesView.__contains__
values_contains(c, f, v) == NotExhausted(find(c, merge_with_filt(f, <<v>>)))

\* membership of an item decided on its value part alone
items_contains_value_only(c, f, k, v) ==
    NotExhausted(find(c, merge_with_filt(f, <<v>>)))

\* MongoItemsView.__contains__: dict(v, **m._merge_with_filt(k))
items_contains(c, f, k, v) ==
    NotExhausted(find(c, dict_update(v, merge_with_filt(f, <<k>>))))

\* data_fields as the caller gives it: None, a list of names, or a mapping
\* (here the inclusion map {name: True})
DataFieldInputs ==
    {[form |-> "none", names |-> {}],
     [form |-> "list", names |-> {"price"}],
     [form |-> "map", names |-> {"price"}]}

\* self._data_fields
reader_data_fields(kf, df) ==
    IF df.form = "none" THEN [x \in kf |-> FALSE]
    ELSE IF df.form = "list" THEN [x \in df.names \cup {ID_KEY} |-> x \in df.names]
    ELSE [x \in df.names |-> TRUE]

\* self._items_projection: None, a set of names, or never assigned
items_projection(kf, df) ==
    IF df.form = "none" THEN [is |-> "None", names |-> {}]
    ELSE IF df.form = "list"
         THEN [is |-> "names",
               names |-> {x \in DOMAIN reader_data_fields(kf, df) :
                              reader_data_fields(kf, df)[x]}
                         \cup {x \in DOMAIN key_projection(kf) : key_projection(kf)[x]}]
    ELSE [is |-> "unset", names |-> {}]

Restrict(d, fields) == [x \in DOMAIN d \cap fields |-> d[x]]

Pairs(pairs) == [type |-> "pairs", pairs |-> pairs]

\* list(MongoItemsView.__iter__)
items_iter(c, f, kf, df) ==
    LET ip == items_projection(kf, df)
        hits == find(c, f)
        docs == [i \in 1..Len(hits) |->
                    IF ip.is = "None" THEN hits[i]
                    ELSE project(hits[i], [x \in ip.names |-> TRUE])] IN
    IF ip.is = "unset" THEN Raise("AttributeError")
    ELSE IF \E i \in 1..Len(docs) : ~(kf \subseteq DOMAIN docs[i])
         THEN Raise("KeyError")
    ELSE Pairs([i \in 1..Len(docs) |->
                   [key |-> Restrict(docs[i], kf),
                    value |-> Restrict(docs[i], DOMAIN docs[i] \ kf)]])

\* MongoCollectionReader.__getitem__ of a reader with the given fields
reader_getitem(c, f, k, kf, df) ==
    LET hits == find(c, merge_with_filt(f, <<k>>)) IN
    Cursor([i \in 1..Len(hits) |-> project(hits[i], reader_data_fields(kf, df))])

\* list(MongoValuesView.__iter__)
values_iter(c, f, kf, df) ==
    LET hits == find(c, f) IN
    Cursor([i \in 1..Len(hits) |-> project(hits[i], reader_data_fields(kf, df))])

----------------------------------------------------------------------------
(* The store's calls *)

Scopes == {EmptyMap, "color" :> "red"}

Kinds == {"base", "unique", "first", "multiple"}

KeyInputs == {EmptyMap, ID_KEY :> 0, "color" :> "blue"}

ValueInputs ==
    {"price" :> "9", "price" :> OpValue, "color" :> "blue", "color" :> "red",
     ID_KEY :> 0}

ListInputs ==
    {<<>>, <<"price" :> OpValue>>, <<"color" :> "blue", "price" :> "9">>}

Call(op, k, vals, single) == [op |-> op, k |-> k, vals |-> vals, single |-> single]

Init ==
    /\ coll = <<>>
    /\ filt \in Scopes
    /\ kind \in Kinds
    /\ nextId = 0
    /\ last = Call("init", EmptyMap, <<>>, FALSE)
    /\ prev = <<>>
    /\ raw_result = Ack("None")
    /\ result = Ack("None")
    /\ pending = <<>>

Apply(call, r) ==
    /\ Len(r.coll) <= MaxDocs
    /\ r.nextId <= MaxAutoIds
    /\ coll' = r.coll
    /\ nextId' = r.nextId
    /\ prev' = coll
    /\ last' = call
    /\ raw_result' = r.ack
    /\ result' = Returned(kind, call.op, r.ack)
    /\ UNCHANGED <<filt, kind, pending>>

\* store[k] = v
Set ==
    \E k \in KeyInputs :
        \/ \E v \in ValueInputs :
              Apply(Call("set", k, <<v>>, TRUE),
                    IF kind = "multiple"
                    THEN multiple_setitem(coll, filt, k, <<v>>, TRUE, nextId)
                    ELSE setitem(coll, filt, k, v, nextId))
        \/ \E vs \in ListInputs :
              Apply(Call("set", k, vs, FALSE),
                    IF kind = "multiple"
                    THEN multiple_setitem(coll, filt, k, vs, FALSE, nextId)
                    ELSE Ret(coll, Raise("AssertionError"), nextId))

\* del store[k]
Delete ==
    \E k \in KeyInputs :
        Apply(Call("delete", k, <<>>, FALSE), delitem(coll, filt, k, nextId))

\* store.append(v)
AppendValue ==
    \E v \in ValueInputs :
        Apply(Call("append", EmptyMap, <<v>>, TRUE), append(coll, filt, v, nextId))

\* store.extend(values)
Extend ==
    \E vs \in ListInputs :
        Apply(Call("extend", EmptyMap, vs, FALSE), extend(coll, filt, vs, nextId))

Next == Set \/ Delete \/ AppendValue \/ Extend

Spec == Init /\ [][Next]_vars

----------------------------------------------------------------------------
(* The store with its read operations *)

\* a read whose filter merge updates the store's scope in place
ObserveMerging(call, raw, out) ==
    /\ last' = call
    /\ prev' = coll
    /\ raw_result' = raw
    /\ result' = out
    /\ filt' = dict_update(filt, call.k)
    /\ UNCHANGED <<coll, kind, nextId, pending>>

\* a read: the collection is handed back as it was
Observe(call, raw, out) ==
    /\ last' = call
    /\ prev' = coll
    /\ raw_result' = raw
    /\ result' = out
    /\ UNCHANGED <<coll, filt, kind, nextId, pending>>

\* store[k]
Get ==
    \E k \in KeyInputs :
        Observe(Call("get", k, <<>>, FALSE),
                Cursor(getitem(coll, filt, k)),
                policy_getitem(kind, coll, filt, k))

ViewCall(op, k, skip, limit) ==
    [skip |-> skip, limit |-> limit] @@ Call(op, k, <<>>, FALSE)

\* k in store
Contains ==
    \E k \in KeyInputs :
        LET out == reader_contains(coll, filt, k) IN
        Observe(Call("contains", k, <<>>, FALSE), out, out)

\* list(store) for a reader with the given key fields
Keys ==
    \E kf \in KeyFieldInputs :
        LET out == reader_iter(coll, filt, kf) IN
        Observe(("key_fields" :> kf) @@ Call("keys", EmptyMap, <<>>, FALSE), out, out)

\* len(store)
Len_ ==
    LET out == Counted(len(coll, filt)) IN
    Observe(Call("len", EmptyMap, <<>>, FALSE), out, out)

\* list(view) for a view of the collection with the store's scope
ViewIterate ==
    \E skip \in Skips, limit \in Limits :
        LET out == view_iter(coll, filt, skip, limit) IN
        Observe(ViewCall("view_iter", EmptyMap, skip, limit), out, out)

\* len(view)
ViewLen ==
    \E skip \in Skips, limit \in Limits :
        LET out == view_len(coll, filt, skip, limit) IN
        Observe(ViewCall("view_len", EmptyMap, skip, limit), out, out)

\* k in view
ViewContains ==
    \E k \in KeyInputs :
        LET out == view_contains(coll, filt, k) IN
        Observe(ViewCall("view_contains", k, 0, NoLimit), out, out)

MemberInputs == {dict_update(k, "price" :> "9") : k \in KeyInputs}

\* v in store.values()
ValuesContains ==
    \E v \in MemberInputs :
        LET out == values_contains(coll, filt, v) IN
        Observe(Call("values_contains", EmptyMap, <<v>>, TRUE), out, out)

\* (k, v) in store.items()
ItemsContains ==
    \E k \in KeyInputs, v \in MemberInputs :
        LET out == items_contains(coll, filt, k, v) IN
        Observe(Call("items_contains", k, <<v>>, TRUE), out, out)

\* list(store.items()) for a reader with the given key and value fields
Items ==
    \E kf \in KeyFieldInputs, df \in DataFieldInputs :
        LET out == items_iter(coll, filt, kf, df) IN
        Observe([key_fields |-> kf, data_fields |-> df]
                    @@ Call("items", EmptyMap, <<>>, FALSE), out, out)

NextRead ==
    \/ Next
    \/ Get
    \/ Contains
    \/ Keys
    \/ Len_
    \/ ViewIterate
    \/ ViewLen
    \/ ViewContains

SpecRead == Init /\ [][NextRead]_vars

\* the store with get and the membership and iteration of its values and items
NextViews ==
    \/ Next
    \/ Get
    \/ ValuesContains
    \/ ItemsContains
    \/ Items

SpecViews == Init /\ [][NextViews]_vars

----------------------------------------------------------------------------
(* Readers over a collection that already holds documents *)

SeededColls ==
    {<<>>,
     <<[_id |-> 1, color |-> "red"]>>,
     <<[_id |-> 1, color |-> "blue"], [_id |-> 2, color |-> "red"]>>,
     <<[_id |-> 1, color |-> "blue"], [_id |-> 2, color |-> "blue", price |-> "9"]>>}

\* the attributes __init__ derives from key_fields and data_fields
Reader(kf, df) ==
    [key_fields |-> kf,
     given |-> df,
     key_projection |-> key_projection(kf),
     data_fields |-> reader_data_fields(kf, df),
     items_projection |-> items_projection(kf, df)]

\* here pending holds the reader's attributes
InitSeeded ==
    /\ coll \in SeededColls
    /\ filt \in Scopes
    /\ kind \in Kinds
    /\ nextId = 0
    /\ last = Call("init", EmptyMap, <<>>, FALSE)
    /\ prev = coll
    /\ raw_result = Ack("None")
    /\ result = Ack("None")
    /\ pending \in {Reader(kf, df) : kf \in KeyFieldInputs, df \in DataFieldInputs}

ReaderCall(op, k) ==
    [key_fields |-> pending.key_fields, data_fields |-> pending.given]
        @@ Call(op, k, <<>>, FALSE)

\* reader[k]
ReaderGetItem ==
    \E k \in KeyInputs :
        LET out == reader_getitem(coll, filt, k, pending.key_fields, pending.given) IN
        Observe(ReaderCall("reader_get", k), out, out)

\* list(reader)
ReaderKeys ==
    LET out == reader_iter(coll, filt, pending.key_fields) IN
    Observe(ReaderCall("keys", EmptyMap), out, out)

\* list(reader.values())
Values ==
    LET out == values_iter(coll, filt, pending.key_fields, pending.given) IN
    Observe(ReaderCall("values", EmptyMap), out, out)

\* list(reader.items())
ReaderItems ==
    LET out == items_iter(coll, filt, pending.key_fields, pending.given) IN
    Observe(ReaderCall("items", EmptyMap), out, out)

NextReaders ==
    \/ Get
    \/ Contains
    \/ ReaderKeys
    \/ Len_
    \/ ViewIterate
    \/ ViewLen
    \/ ViewContains
    \/ ValuesContains
    \/ ItemsContains
    \/ ReaderItems
    \/ Values
    \/ ReaderGetItem

SpecReaders == InitSeeded /\ [][NextReaders]_vars

----------------------------------------------------------------------------
(* Calls whose key or value may be something else than a mapping *)

\* an argument as the caller passes it: a mapping, an int, a non-empty str,
\* or a list of (name, value) pairs; map is what the pairs spell
Mapping(m) == [form |-> "mapping", map |-> m]

NonMappings ==
    {[form |-> "int", map |-> EmptyMap],
     [form |-> "str", map |-> EmptyMap],
     [form |-> "pairs", map |-> EmptyMap],
     [form |-> "pairs", map |-> "color" :> "red"]}

ArgInputs == NonMappings \cup {Mapping(EmptyMap), Mapping("color" :> "blue")}

\* isinstance(x, Mapping)
IsMapping(x) == x.form = "mapping"

Converted(type, m) == [type |-> type, map |-> m]

\* dict(obj): a mapping is copied, a list of pairs becomes the mapping the
\* pairs spell, an int is not iterable, a str yields elements of length 1
dict_of(obj) ==
    IF obj.form \in {"mapping", "pairs"} THEN Converted("dict", obj.map)
    ELSE IF obj.form = "int" THEN Converted("TypeError", EmptyMap)
    ELSE Converted("ValueError", EmptyMap)

\* MongoCollectionReader.__getitem__ behind the class's postget
checked_getitem(knd, c, f, k) ==
    IF IsMapping(k) THEN policy_getitem(knd, c, f, k.map) ELSE Raise("AssertionError")

\* MongoCollectionReader.__contains__: the assert of _merge_with_filt
checked_contains(c, f, k) ==
    IF IsMapping(k) THEN reader_contains(c, f, k.map) ELSE Raise("AssertionError")

\* MongoCollectionCollection.__contains__: dict(obj, **self.filter)
view_contains_of(c, f, k) ==
    LET d == dict_of(k) IN
    IF d.type = "dict" THEN view_contains(c, f, d.map) ELSE Raise(d.type)

\* __setitem__ of the persister classes: the asserts, then the body
checked_setitem(knd, c, f, k, v, nid) ==
    IF knd = "multiple"
    THEN IF ~IsMapping(k) THEN Ret(c, Raise("AssertionError"), nid)
         ELSE IF IsMapping(v) THEN multiple_setitem(c, f, k.map, <<v.map>>, TRUE, nid)
         ELSE IF v.form = "pairs" /\ v.map = EmptyMap
              THEN multiple_setitem(c, f, k.map, <<>>, FALSE, nid)
         ELSE Ret(c, Raise("AssertionError"), nid)
    ELSE IF IsMapping(k) /\ IsMapping(v)
         THEN setitem(c, f, k.map, v.map, nid)
         ELSE Ret(c, Raise("AssertionError"), nid)

\* MongoCollectionPersister.append
checked_append(c, f, v, nid) ==
    IF IsMapping(v) THEN append(c, f, v.map, nid) ELSE Ret(c, Raise("AssertionError"), nid)

\* MongoCollectionPersister.extend of a list of arguments
checked_extend(c, f, values, nid) ==
    IF \A i \in 1..Len(values) : IsMapping(values[i])
    THEN extend(c, f, [i \in 1..Len(values) |-> values[i].map], nid)
    ELSE Ret(c, Raise("AssertionError"), nid)

ArgListInputs == {<<v>> : v \in ArgInputs} \cup {<<Mapping(EmptyMap), v>> : v \in NonMappings}

ArgGet ==
    \E k \in ArgInputs :
        LET out == checked_getitem(kind, coll, filt, k) IN
        Observe(Call("get", k, <<>>, FALSE), out, out)

ArgContains ==
    \E k \in ArgInputs :
        LET out == checked_contains(coll, filt, k) IN
        Observe(Call("contains", k, <<>>, FALSE), out, out)

ArgViewContains ==
    \E k \in ArgInputs :
        LET out == view_contains_of(coll, filt, k) IN
        Observe(Call("view_contains", k, <<>>, FALSE), out, out)

ArgSet ==
    \E k \in ArgInputs, v \in ArgInputs :
        Apply(Call("set", k, <<v>>, TRUE),
              checked_setitem(kind, coll, filt, k, v, nextId))

ArgAppend ==
    \E v \in ArgInputs :
        Apply(Call("append", Mapping(EmptyMap), <<v>>, TRUE),
              checked_append(coll, filt, v, nextId))

ArgExtend ==
    \E vs \in ArgListInputs :
        Apply(Call("extend", Mapping(EmptyMap), vs, FALSE),
              checked_extend(coll, filt, vs, nextId))

NextArgs ==
    \/ ArgGet
    \/ ArgContains
    \/ ArgViewContains
    \/ ArgSet
    \/ ArgAppend
    \/ ArgExtend

SpecArgs == InitSeeded /\ [][NextArgs]_vars

----------------------------------------------------------------------------
(* Clients sharing one collection: the Multiple policy's set is two backend *)
(* calls, and other clients' calls can fall between them                    *)

Writers == {1, 2}

ConcListInputs == {<<>>} \cup {<<v>> : v \in ValueInputs}

\* __setitem__ up to and including self._mgc.delete_one: first match only
setitem_delete_first_only(c, f, k, nid) ==
    delete_one(c, merge_with_filt(f, <<k>>), nid)

\* __setitem__ up to and including self._mgc.delete_many(...)
setitem_delete_step(c, f, k, nid) ==
    delete_many(c, merge_with_filt(f, <<k>>), nid)

\* the rest of __setitem__ if it cleared the key's documents once more
setitem_replace_step(c, f, k, vals, nid) ==
    multiple_setitem(c, f, k, vals, FALSE, nid)

\* the rest of __setitem__: build the documents, insert_many them
setitem_insert_step(c, f, k, vals, nid) ==
    IF \E i \in 1..Len(vals) : build_doc(f, <<k, vals[i]>>).raises
    THEN Ret(c, Raise("ValueError"), nid)
    ELSE insert_many(c, [i \in 1..Len(vals) |-> build_doc(f, <<k, vals[i]>>).doc], nid)

Frame(pc, k, vals) == [pc |-> pc, k |-> k, vals |-> vals]

StepOf(w, op, k, vals) == ("w" :> w) @@ Call(op, k, vals, FALSE)

InitConc ==
    /\ coll \in SeededColls
    /\ filt \in Scopes
    /\ kind = "multiple"
    /\ nextId = 0
    /\ last = Call("init", EmptyMap, <<>>, FALSE)
    /\ prev = coll
    /\ raw_result = Ack("None")
    /\ result = Ack("None")
    /\ pending = [w \in Writers |-> Frame("idle", EmptyMap, <<>>)]

\* writer w enters store[k] = vals and its delete_many reaches the backend
SetDelete(w) ==
    /\ pending[w].pc = "idle"
    /\ \E k \in KeyInputs, vals \in ConcListInputs :
          LET r == setitem_delete_step(coll, filt, k, nextId) IN
          /\ coll' = r.coll
          /\ nextId' = r.nextId
          /\ prev' = coll
          /\ last' = StepOf(w, "set_delete", k, vals)
          /\ raw_result' = r.ack
          /\ pending' = [pending EXCEPT ![w] = Frame("deleted", k, vals)]
    /\ UNCHANGED <<filt, kind, result>>

\* writer w's insert_many reaches the backend and its call returns
SetInsert(w) ==
    /\ pending[w].pc = "deleted"
    /\ LET r == setitem_insert_step(coll, filt, pending[w].k, pending[w].vals, nextId) IN
       /\ coll' = r.coll
       /\ nextId' = r.nextId
       /\ prev' = coll
       /\ last' = StepOf(w, "set_insert", pending[w].k, pending[w].vals)
       /\ raw_result' = r.ack
       /\ result' = Returned(kind, "set", r.ack)
       /\ pending' = [pending EXCEPT ![w].pc = "done"]
    /\ UNCHANGED <<filt, kind>>

\* another client's store[k] on the same scope; prev and raw_result stay
\* those of the latest write
ReaderGet ==
    /\ \E k \in KeyInputs :
          /\ last' = Call("get", k, <<>>, FALSE)
          /\ result' = policy_getitem(kind, coll, filt, k)
    /\ UNCHANGED <<coll, filt, kind, nextId, prev, raw_result, pending>>

NextConc == (\E w \in Writers : SetDelete(w) \/ SetInsert(w)) \/ ReaderGet

SpecConc == InitConc /\ [][NextConc]_vars

----------------------------------------------------------------------------
(* tracking_methods: write calls recorded, executed when the block exits *)

MaxTracks == 2

\* "tracked": track_method_calls(store, tracked_methods=<the write methods>,
\*            calls_tracker=track_calls_without_executing), TrackableMixin;
\* "bulk":    with_bulk_writes(store, tracked_methods=<the write methods>)
TrackKinds == {"tracked", "bulk"}

TrackKeyInputs == {EmptyMap, "color" :> "blue"}

TrackValueInputs == {"price" :> "9", ID_KEY :> 0}

TrackListInputs == {<<>>, <<"price" :> "9">>}

TrackCalls ==
    {Call("set", k, <<"price" :> "9">>, TRUE) : k \in TrackKeyInputs}
        \cup {Call("delete", k, <<>>, FALSE) : k \in TrackKeyInputs}
        \cup {Call("append", EmptyMap, <<v>>, TRUE) : v \in TrackValueInputs}
        \cup {Call("extend", EmptyMap, vs, FALSE) : vs \in TrackListInputs}

\* self._tracks and whether the caller is inside `with store:`
Tracking(tracks, inside) == [tracks |-> tracks, inside |-> inside]

\* func(self, *args, **kwargs) for a recorded write method of the persister
execute_call(c, f, call, nid) ==
    IF call.op = "set" THEN setitem(c, f, call.k, call.vals[1], nid)
    ELSE IF call.op = "delete" THEN delitem(c, f, call.k, nid)
    ELSE IF call.op = "append" THEN append(c, f, call.vals[1], nid)
    ELSE extend(c, f, call.vals, nid)

Executed(c, nid, raised, results) ==
    [coll |-> c, nextId |-> nid, raised |-> raised, results |-> results]

NotRaised == "none"

RECURSIVE execute_tracks(_, _, _, _, _)
\* TrackableMixin._execute_tracks: the calls in order, up to the first
\* that raises; results counts the entries of the returned list
execute_tracks(c, f, tracks, nid, results) ==
    IF tracks = <<>> THEN Executed(c, nid, NotRaised, results)
    ELSE LET r == execute_call(c, f, Head(tracks), nid)
             out == result_mapper(r.ack) IN
         IF IsRaise(out) THEN Executed(r.coll, r.nextId, out.type, results)
         ELSE execute_tracks(r.coll, f, Tail(tracks), r.nextId, results + 1)

\* the request carries no document
NoDoc == [raises |-> FALSE, doc |-> EmptyMap]

Request(req, filter, doc) == [req |-> req, filter |-> filter, doc |-> doc]

\* get_op_request(func, *args, **kwargs): the requests of one recorded call
get_op_request(f, call) ==
    IF call.op = "set"
    THEN <<Request("ReplaceOne", merge_with_filt(f, <<call.k>>),
                   build_doc(f, <<call.k, call.vals[1]>>))>>
    ELSE IF call.op = "delete"
         THEN <<Request("DeleteOne", merge_with_filt(f, <<call.k>>),
                        NoDoc)>>
    ELSE [i \in 1..Len(call.vals) |->
             Request("InsertOne", EmptyMap, build_doc(f, <<call.vals[i]>>))]

RECURSIVE op_requests(_, _)
\* the op_requests list of MongoBulkWritesMixin._execute_tracks
op_requests(f, tracks) ==
    IF tracks = <<>> THEN <<>>
    ELSE get_op_request(f, Head(tracks)) \o op_requests(f, Tail(tracks))

\* one request of an ordered bulk write
bulk_step(c, request, nid) ==
    IF request.req = "ReplaceOne"
    THEN replace_one(c, request.filter, request.doc.doc, nid)
    ELSE IF request.req = "DeleteOne" THEN delete_one(c, request.filter, nid)
    ELSE insert_one(c, request.doc.doc, nid)

RECURSIVE bulk_write_from(_, _, _, _)
bulk_write_from(c, requests, nid, n) ==
    IF requests = <<>>
    THEN Ret(c, [Ack("BulkWriteResult") EXCEPT !.n = n], nid)
    ELSE LET r == bulk_step(c, Head(requests), nid) IN
         IF IsRaise(r.ack) THEN Ret(r.coll, Raise("BulkWriteError"), r.nextId)
         ELSE bulk_write_from(r.coll, Tail(requests), r.nextId,
                              n + (IF r.ack.type = "InsertOneResult" THEN 1 ELSE r.ack.n))

\* mgc.bulk_write(requests): ordered; an empty list of requests is refused
bulk_write(c, requests, nid) ==
    IF requests = <<>> THEN Ret(c, Raise("InvalidOperation"), nid)
    ELSE bulk_write_from(c, requests, nid, 0)

\* MongoBulkWritesMixin._execute_tracks
bulk_execute_tracks(c, f, tracks, nid) ==
    LET requests == op_requests(f, tracks) IN
    IF \E i \in 1..Len(requests) : requests[i].doc.raises
    THEN Executed(c, nid, "ValueError", 0)
    ELSE LET r == bulk_write(c, requests, nid) IN
         Executed(r.coll, r.nextId,
                  IF IsRaise(r.ack) THEN r.ack.type ELSE NotRaised, 1)

Flushed(e, tracks, truthy) ==
    [coll |-> e.coll, nextId |-> e.nextId, raised |-> e.raised,
     tracks |-> tracks, truthy |-> truthy]

\* TrackableMixin.flush: _execute_tracks, then clear_tracks; truthy is the
\* truth value of what it returns (a list of results, a BulkWriteResult)
flush(knd, c, f, tracks, nid) ==
    LET e == IF knd = "bulk" THEN bulk_execute_tracks(c, f, tracks, nid)
             ELSE execute_tracks(c, f, tracks, nid, 0) IN
    IF e.raised # NotRaised THEN Flushed(e, tracks, FALSE)
    ELSE Flushed(e, <<>>, e.results > 0)

\* what leaves the with statement: __exit__ returns flush()
exit_outcome(body_raised, fl) ==
    IF fl.raised # NotRaised THEN Raise(fl.raised)
    ELSE IF body_raised /\ ~fl.truthy THEN Raise("RuntimeError")
    ELSE Ack("None")

InitTrack ==
    /\ coll \in SeededColls
    /\ filt \in Scopes
    /\ kind \in TrackKinds
    /\ nextId = 0
    /\ last = Call("init", EmptyMap, <<>>, FALSE)
    /\ prev = coll
    /\ raw_result = Ack("None")
    /\ result = Ack("None")
    /\ pending = Tracking(<<>>, FALSE)

\* with store:
Enter ==
    /\ ~pending.inside
    /\ pending' = [pending EXCEPT !.inside = TRUE]
    /\ last' = Call("enter", EmptyMap, <<>>, FALSE)
    /\ prev' = coll
    /\ raw_result' = Ack("None")
    /\ result' = Ack("None")
    /\ UNCHANGED <<coll, filt, kind, nextId>>

\* a write method called on the tracked store
Track ==
    /\ Len(pending.tracks) < MaxTracks
    /\ \E call \in TrackCalls :
          /\ pending' = [pending EXCEPT !.tracks = Append(@, call)]
          /\ last' = ("call" :> call) @@ Call("track", EmptyMap, <<>>, FALSE)
    /\ prev' = coll
    /\ raw_result' = Ack("None")
    /\ result' = Ack("None")
    /\ UNCHANGED <<coll, filt, kind, nextId>>

\* store[k]: not a tracked method
TrackedGet ==
    \E k \in TrackKeyInputs :
        LET out == Cursor(getitem(coll, filt, k)) IN
        Observe(Call("get", k, <<>>, FALSE), out, out)

FlushCall(op, body_raised) ==
    [tracks |-> pending.tracks, nid |-> nextId, body_raised |-> body_raised]
        @@ Call(op, EmptyMap, <<>>, FALSE)

Flushing(call, fl, out) ==
    /\ Len(fl.coll) <= MaxDocs
    /\ fl.nextId <= MaxAutoIds
    /\ coll' = fl.coll
    /\ nextId' = fl.nextId
    /\ prev' = coll
    /\ last' = call
    /\ raw_result' = out
    /\ result' = out
    /\ UNCHANGED <<filt, kind>>

\* the with block ends, its body having raised or not: __exit__
Exit ==
    /\ pending.inside
    /\ \E body_raised \in BOOLEAN :
          LET fl == flush(kind, coll, filt, pending.tracks, nextId) IN
          /\ Flushing(FlushCall("exit", body_raised), fl, exit_outcome(body_raised, fl))
          /\ pending' = Tracking(fl.tracks, FALSE)

\* store.flush() / store.commit()
Flush ==
    LET fl == flush(kind, coll, filt, pending.tracks, nextId) IN
    /\ Flushing(FlushCall("flush", FALSE), fl,
                IF fl.raised # NotRaised THEN Raise(fl.raised) ELSE Ack("None"))
    /\ pending' = [pending EXCEPT !.tracks = fl.tracks]

NextTrack == Enter \/ Track \/ TrackedGet \/ Exit \/ Flush

SpecTrack == InitTrack /\ [][NextTrack]_vars

----------------------------------------------------------------------------
(* util: projections *)

MaxProjKeys == 2

\* a dict is the sequence of its items in insertion order; a value is a
\* boolean leaf or a nested dict
Leaf(flag) == [is |-> "leaf", flag |-> flag]

Nested(items) == [is |-> "dict", items |-> items]

Entry(k, v) == [k |-> k, v |-> v]

\* isinstance(v, dict)
IsDict(v) == v.is = "dict"

FieldNames == {"a", "a.b", ID_KEY}

NestedInputs ==
    {<<>>,
     <<Entry("b", Leaf(TRUE))>>,
     <<Entry("b", Leaf(FALSE))>>,
     <<Entry("b", Leaf(TRUE)), Entry("c", Leaf(FALSE))>>,
     <<Entry("b", Nested(<<Entry("c", Leaf(TRUE))>>))>>}

ProjValues == {Leaf(TRUE), Leaf(FALSE)} \cup {Nested(d) : d \in NestedInputs}

SeqsUpTo(S, n) == UNION {[1..m -> S] : m \in 0..n}

\* the dicts of at most MaxProjKeys items
DictInputs ==
    {d \in SeqsUpTo({Entry(k, v) : k \in FieldNames, v \in ProjValues}, MaxProjKeys) :
        \A i, j \in 1..Len(d) : i # j => d[i].k # d[j].k}

NameListInputs == SeqsUpTo(FieldNames, MaxProjKeys)

\* the second operand of a union
OtherInputs ==
    {<<>>,
     <<Entry("a", Leaf(FALSE))>>,
     <<Entry("a", Leaf(TRUE)), Entry(ID_KEY, Leaf(FALSE))>>,
     <<Entry("a.b", Leaf(FALSE))>>,
     <<Entry("a", Nested(<<Entry("b", Leaf(FALSE))>>))>>,
     <<Entry("a", Nested(<<Entry("b", Leaf(TRUE)), Entry("c", Leaf(FALSE))>>)),
       Entry(ID_KEY, Leaf(TRUE))>>,
     <<Entry("a.b", Leaf(TRUE)), Entry("a", Nested(<<Entry("b", Leaf(FALSE))>>))>>}

ProjectionInputs ==
    {[form |-> "None"]}
        \cup {[form |-> "str", name |-> n] : n \in FieldNames}
        \cup {[form |-> "list", names |-> l] : l \in NameListInputs}
        \cup {[form |-> "dict", items |-> d] : d \in DictInputs}

RECURSIVE flatten_dict_items(_, _)
\* list(flatten_dict_items(d, prefix)): the (path, value) pairs in order
flatten_dict_items(d, prefix) ==
    IF d = <<>> THEN <<>>
    ELSE LET k == Head(d).k
             v == Head(d).v IN
         (IF ~IsDict(v)
          THEN <<<<prefix \o k, v.flag>>>>
          ELSE flatten_dict_items(v.items, prefix \o k \o "."))
             \o flatten_dict_items(Tail(d), prefix)

\* dict(pairs): a later pair with the same key replaces the earlier value
dict_from_pairs(pairs) ==
    [key \in {pairs[i][1] : i \in 1..Len(pairs)} |->
        LET at == CHOOSE i \in 1..Len(pairs) :
                      /\ pairs[i][1] = key
                      /\ \A j \in 1..Len(pairs) : pairs[j][1] = key => j <= i IN
        pairs[at][2]]

\* {field: True for field in projection}, in insertion order
true_for_each(names) ==
    LET firsts == SelectSeq([i \in 1..Len(names) |-> i],
                            LAMBDA i : \A j \in 1..(i - 1) : names[j] # names[i]) IN
    [i \in 1..Len(firsts) |-> Entry(names[firsts[i]], Leaf(TRUE))]

ProjectionResult(type, names, map) == [type |-> type, names |-> names, map |-> map]

FlatDict(items) == ProjectionResult("dict", <<>>, dict_from_pairs(flatten_dict_items(items, "")))

\* normalize_projection without the explicit exclusion of _id
normalize_projection_without_id(projection) ==
    IF projection.form = "None" THEN ProjectionResult("None", <<>>, EmptyMap)
    ELSE IF projection.form = "dict" THEN FlatDict(projection.items)
    ELSE LET names == IF projection.form = "str" THEN <<projection.name>>
                      ELSE projection.names IN
         IF projection.form = "list" /\ Len(names) = 0
         THEN ProjectionResult("list", names, EmptyMap)
         ELSE FlatDict(true_for_each(names))

\* util.normalize_projection
normalize_projection(projection) ==
    IF projection.form = "None" THEN ProjectionResult("None", <<>>, EmptyMap)
    ELSE IF projection.form = "dict" THEN FlatDict(projection.items)
    ELSE LET names == IF projection.form = "str" THEN <<projection.name>>
                      ELSE projection.names IN
         IF projection.form = "list" /\ Len(names) = 0
         THEN ProjectionResult("list", names, EmptyMap)
         ELSE LET d == true_for_each(names) IN
              FlatDict(IF \A i \in 1..Len(d) : d[i].k # ID_KEY
                       THEN Append(d, Entry(ID_KEY, Leaf(FALSE)))
                       ELSE d)

\* a merge that keeps a flag only when both sides grant it
merge_projection_dicts_both(x, y) ==
    [k \in DOMAIN x \cup DOMAIN y |->
        (IF k \in DOMAIN x THEN x[k] ELSE TRUE) /\ (IF k \in DOMAIN y THEN y[k] ELSE TRUE)]

\* merge_projection_dicts: key-aligned or_, a missing key counting as True
merge_projection_dicts(x, y) ==
    [k \in DOMAIN x \cup DOMAIN y |->
        (IF k \in DOMAIN x THEN x[k] ELSE TRUE) \/ (IF k \in DOMAIN y THEN y[k] ELSE TRUE)]

\* util.projection_union(projection_1, projection_2)
projection_union(projection_1, projection_2) ==
    ProjectionResult("dict", <<>>,
        merge_projection_dicts(FlatDict(projection_1).map, FlatDict(projection_2).map))

InitProjection ==
    /\ coll = <<>>
    /\ filt = EmptyMap
    /\ kind = "base"
    /\ nextId = 0
    /\ last = Call("init", EmptyMap, <<>>, FALSE)
    /\ prev = <<>>
    /\ raw_result \in ProjectionInputs
    /\ result = ProjectionResult("None", <<>>, EmptyMap)
    /\ pending = <<>>

\* normalize_projection(projection)
NormalizeProjection ==
    /\ last' = Call("normalize_projection", EmptyMap, <<>>, FALSE)
    /\ result' = normalize_projection(raw_result)
    /\ UNCHANGED <<coll, filt, kind, nextId, prev, raw_result, pending>>

\* projection_union(projection, other)
ProjectionUnion ==
    /\ raw_result.form = "dict"
    /\ \E other \in OtherInputs :
          /\ last' = ("other" :> other) @@ Call("projection_union", EmptyMap, <<>>, FALSE)
          /\ result' = projection_union(raw_result.items, other)
    /\ UNCHANGED <<coll, filt, kind, nextId, prev, raw_result, pending>>

NextProjection == NormalizeProjection \/ ProjectionUnion

SpecProjection == InitProjection /\ [][NextProjection]_vars

----------------------------------------------------------------------------
(* trans: PersistentDict and PersistentList *)

MaxItems == 2

MaxDepth == 3

\* a value is a scalar or a node; a node is a dict or a list with its items
\* in order (a list's items have the key ""), and persistent tells a
\* PersistentDict / PersistentList from a plain dict / list
Scalar(x) == [is |-> "scalar", value |-> x]

Node(is, persistent, items) == [is |-> is, persistent |-> persistent, items |-> items]

IsNode(v) == v.is \in {"dict", "list"}

\* the data a PersistentDict is constructed from
InitialData ==
    {Node("dict", FALSE, <<>>),
     Node("dict", FALSE,
          <<Entry("a", Scalar(1)),
            Entry("b", Node("dict", FALSE, <<Entry("a", Scalar(1))>>))>>),
     Node("dict", FALSE,
          <<Entry("c", Node("list", FALSE,
                            <<Entry("", Node("dict", FALSE,
                                             <<Entry("a", Scalar(1))>>))>>))>>)}

\* what the caller assigns or appends
NewValues == {Scalar(8), Node("dict", FALSE, <<Entry("a", Scalar(1))>>)}

NewKeys == {"a"}

RECURSIVE get_persistent_obj(_)
\* get_persistent_obj(container, v): mappings and iterables are wrapped,
\* and their constructors wrap their own items
get_persistent_obj(v) ==
    IF IsNode(v)
    THEN Node(v.is, TRUE,
              [i \in 1..Len(v.items) |->
                  Entry(v.items[i].k, get_persistent_obj(v.items[i].v))])
    ELSE v

RECURSIVE Content(_)
\* the object as plain data
Content(v) ==
    IF IsNode(v)
    THEN [is |-> v.is,
          items |-> [i \in 1..Len(v.items) |->
                        Entry(v.items[i].k, Content(v.items[i].v))]]
    ELSE v

RECURSIVE NodePaths(_)
\* the paths (item positions from the root) of the nodes of an object
NodePaths(v) ==
    IF IsNode(v)
    THEN {<<>>} \cup UNION {{<<i>> \o path : path \in NodePaths(v.items[i].v)} :
                              i \in 1..Len(v.items)}
    ELSE {}

RECURSIVE NodeAt(_, _)
NodeAt(v, path) ==
    IF path = <<>> THEN v ELSE NodeAt(v.items[Head(path)].v, Tail(path))

RECURSIVE Replaced(_, _, _)
\* the object with the node at path replaced
Replaced(v, path, node) ==
    IF path = <<>> THEN node
    ELSE [v EXCEPT !.items[Head(path)].v = Replaced(@, Tail(path), node)]

Front(path) == SubSeq(path, 1, Len(path) - 1)

Notified(count, data) == [count |-> count, data |-> data]

RECURSIVE persist_data(_, _, _)
\* PersistentObjectBase.persist_data of the node at path: each object hands
\* itself to its container, the root's container is the one notified
persist_data(root, path, before) ==
    IF ~NodeAt(root, path).persistent THEN Notified(0, before)
    ELSE IF path = <<>> THEN Notified(1, Content(root))
    ELSE persist_data(root, Front(path), before)

\* dict.__setitem__(k, v) on the items
with_item(items, k, v) ==
    IF \E i \in 1..Len(items) : items[i].k = k
    THEN [i \in 1..Len(items) |-> IF items[i].k = k THEN Entry(k, v) ELSE items[i]]
    ELSE Append(items, Entry(k, v))

without_item(items, i) == [j \in 1..(Len(items) - 1) |-> IF j < i THEN items[j] ELSE items[j + 1]]

Depth(path, v) == Len(path) + (IF IsNode(v) THEN 2 ELSE 1)

\* here pending is the root object, raw_result the data last passed to the
\* root container's persist_data, result the notifications of the last call
InitPersist ==
    /\ coll = <<>>
    /\ filt = EmptyMap
    /\ kind = "base"
    /\ nextId = 0
    /\ last = Call("init", EmptyMap, <<>>, FALSE)
    /\ prev = <<>>
    /\ pending \in {get_persistent_obj(d) : d \in InitialData}
    /\ raw_result = Content(pending)
    /\ result = Notified(0, Content(pending))

PersistCall(op, path, overridden) ==
    [path |-> path, overridden |-> overridden] @@ Call(op, EmptyMap, <<>>, FALSE)

\* a method of the node at path has changed its items; the overridden
\* methods end with self.persist_data()
Modify(call, items) ==
    LET node == NodeAt(pending, call.path)
        root == Replaced(pending, call.path, [node EXCEPT !.items = items])
        out == IF call.overridden THEN persist_data(root, call.path, raw_result)
               ELSE Notified(0, raw_result) IN
    /\ Len(items) <= MaxItems
    /\ pending' = root
    /\ last' = call
    /\ result' = out
    /\ raw_result' = out.data
    /\ UNCHANGED <<coll, filt, kind, nextId, prev>>

\* d[k] = v on a dict, l[i] = v on a list
SetItem ==
    \E path \in NodePaths(pending), v \in NewValues :
        LET node == NodeAt(pending, path) IN
        /\ Depth(path, v) <= MaxDepth
        /\ IF node.is = "dict"
           THEN \E k \in NewKeys :
                    Modify(PersistCall("setitem", path, TRUE), with_item(node.items, k, v))
           ELSE \E i \in 1..Len(node.items) :
                    Modify(PersistCall("setitem", path, TRUE),
                           [node.items EXCEPT ![i] = Entry("", v)])

\* del d[k], del l[i]
DelItem ==
    \E path \in NodePaths(pending) :
        \E i \in 1..Len(NodeAt(pending, path).items) :
            Modify(PersistCall("delitem", path, TRUE),
                   without_item(NodeAt(pending, path).items, i))

\* l.append(v)
ListAppend ==
    \E path \in NodePaths(pending), v \in NewValues :
        /\ NodeAt(pending, path).is = "list"
        /\ Depth(path, v) <= MaxDepth
        /\ Modify(PersistCall("append", path, TRUE),
                  Append(NodeAt(pending, path).items, Entry("", v)))

\* d.clear(), l.clear(): inherited from dict and list
Clear ==
    \E path \in NodePaths(pending) :
        /\ NodeAt(pending, path).items # <<>>
        /\ Modify(PersistCall("clear", path, FALSE), <<>>)

NextPersist == SetItem \/ DelItem \/ ListAppend \/ Clear

SpecPersist == InitPersist /\ [][NextPersist]_vars

----------------------------------------------------------------------------
(* The result normaliser on its own: every acknowledgement shape *)

MaxCount == 2

AckUniverse ==
    {[Ack("InsertOneResult") EXCEPT !.inserted_id = i] : i \in {0, 1, AutoIdBase}}
    \cup {[Ack("InsertManyResult") EXCEPT !.inserted_ids = ids] :
             ids \in {<<0>>, <<1>>, <<0, 1>>, <<AutoIdBase, AutoIdBase + 1>>}}
    \cup {[Ack(t) EXCEPT !.n = n] :
             t \in {"DeleteResult", "UpdateResult"}, n \in 0..MaxCount}
    \cup {[Ack("BulkWriteResult") EXCEPT !.inserted_count = a, !.upserted_count = b,
                                         !.modified_count = c, !.deleted_count = d] :
             a \in 0..MaxCount, b \in 0..MaxCount, c \in 0..MaxCount, d \in 0..MaxCount}
    \cup {Ack("str"), Ack("dict")}

InitNorm ==
    /\ coll = <<>>
    /\ filt = EmptyMap
    /\ kind = "base"
    /\ nextId = 0
    /\ last = Call("ack", EmptyMap, <<>>, FALSE)
    /\ prev = <<>>
    /\ raw_result \in AckUniverse
    /\ result = Ack("pending")
    /\ pending = <<>>

\* a method decorated with trans.normalize_result returns
NormalizeTrans ==
    /\ last.op = "ack"
    /\ last' = Call("trans", EmptyMap, <<>>, FALSE)
    /\ result' = result_mapper(raw_result)
    /\ UNCHANGED <<coll, filt, kind, nextId, prev, raw_result, pending>>

\* a method decorated with decorators.normalize_result returns
NormalizeDecorators ==
    /\ last.op = "ack"
    /\ last' = Call("decorators", EmptyMap, <<>>, FALSE)
    /\ result' = decorators_result_mapper(raw_result)
    /\ UNCHANGED <<coll, filt, kind, nextId, prev, raw_result, pending>>

NextNorm == NormalizeTrans \/ NormalizeDecorators

SpecNorm == InitNorm /\ [][NextNorm]_vars

----------------------------------------------------------------------------
(* Properties *)

Writes == {"set", "delete", "append", "extend"}

Done(c) == {c[i] : i \in 1..Len(c)}

\* the method body ran to its end (the backend acknowledged the write)
Acknowledged == last.op \in Writes /\ ~IsRaise(raw_result)

\* C1: a document matches the merged filter iff it matches the scope and
\* the caller's mapping, for the reader's and for the collection view's merge.
C1_MergeIsConjunction ==
    (Acknowledged /\ last.op \in {"set", "delete"}) =>
        \A d \in Done(prev) :
            /\ Matches(d, merge_with_filt(filt, <<last.k>>))
                  <=> (Matches(d, filt) /\ Matches(d, last.k))
            /\ Matches(d, collection_merge_with_filt(filt, last.k))
                  <=> (Matches(d, filt) /\ Matches(d, last.k))

\* C2: a call through a scoped store leaves every out-of-scope document in
\* place and unchanged, and every document it creates or replaces is in scope.
C2_ScopeIsNeverEscaped ==
    (last.op \in Writes /\ filt # EmptyMap) =>
        /\ \A d \in Done(prev) : ~Matches(d, filt) => d \in Done(coll)
        /\ \A d \in Done(coll) : d \notin Done(prev) => Matches(d, filt)

\* C3: set(k, v) then get(k) under the Unique policy returns, without error,
\* the merge of scope, k and v reduced to the value projection.
C3_SetThenUniqueGet ==
    (Acknowledged /\ last.op = "set" /\ last.single /\ kind = "unique") =>
        LET got == unique_getitem(coll, filt, last.k) IN
        /\ got.type = "doc"
        /\ got.doc = project(merge_with_filt(filt, <<last.k, last.vals[1]>>),
                             data_fields)

\* C4: after set(k, v) with a non-empty k, delete(k) makes `k in store` false
\* and count() exactly one smaller than just before the delete.
C4_SetThenDelete ==
    (Acknowledged /\ last.op = "set" /\ last.single /\ last.k # EmptyMap
     /\ kind # "multiple") =>
        LET r == delitem(coll, filt, last.k, nextId) IN
        /\ ~IsRaise(r.ack)
        /\ ~contains(r.coll, filt, last.k)
        /\ len(r.coll, filt) = len(coll, filt) - 1

\* C5: set(k, v) is an upsert: one more document when no in-scope document
\* matches k, the same count when one does, and a second identical set
\* changes nothing.
C5_SetIsUpsert ==
    (Acknowledged /\ last.op = "set" /\ last.single /\ kind # "multiple") =>
        LET InScopeMatches == {d \in Done(prev) : Matches(d, filt) /\ Matches(d, last.k)}
            again == setitem(coll, filt, last.k, last.vals[1], nextId) IN
        /\ InScopeMatches = {} => Len(coll) = Len(prev) + 1
        /\ InScopeMatches # {} =>
              /\ Len(coll) = Len(prev)
              /\ len(coll, filt) = len(prev, filt)
              /\ Cardinality(Done(prev) \ Done(coll)) <= 1
              /\ Done(prev) \ Done(coll) \subseteq InScopeMatches
        /\ again.coll = coll

\* the documents a call asks the store to write
MergedDocs ==
    IF last.op = "set"
    THEN {merge_with_filt(filt, <<last.k, last.vals[i]>>) : i \in 1..Len(last.vals)}
    ELSE {merge_with_filt(filt, <<last.vals[i]>>) : i \in 1..Len(last.vals)}

\* C6: a set, append or extend whose merged document holds an
\* operator-shaped mapping is rejected with an invalid-value error and the
\* collection is left as it was.
C6_OperatorValueRejected ==
    (/\ last.op \in {"set", "append", "extend"}
     /\ (last.op = "set" => (last.single <=> kind # "multiple"))
     /\ \E d \in MergedDocs : HasOperatorShapedValue(d)) =>
        /\ result.type = "ValueError"
        /\ coll = prev

\* C7: delete(k) with an empty k raises KeyError and removes no document.
C7_EmptyKeyDeleteRejected ==
    (last.op = "delete" /\ last.k = EmptyMap) =>
        /\ result.type = "KeyError"
        /\ coll = prev

C7_Witness ==
    /\ last.op = "delete"
    /\ last.k = EmptyMap
    /\ filt # EmptyMap
    /\ count_documents(prev, filt) > 0
    /\ result.type = "KeyError"

PairInputs == {<<v1, v2>> : v1 \in ValueInputs, v2 \in ValueInputs}

\* C8: on a scoped store append(v) then extend([v1, v2]) raises count() by
\* exactly 3 and each new document carries the scope's field values.
C8_AppendThenExtend ==
    (Acknowledged /\ last.op = "append" /\ filt # EmptyMap) =>
        \A vs \in PairInputs :
            LET r == extend(coll, filt, vs, nextId) IN
            ~IsRaise(r.ack) =>
                /\ len(r.coll, filt) = len(prev, filt) + 3
                /\ \A d \in Done(r.coll) \ Done(prev) : Matches(d, filt)

\* C9: every mutating call on every persister returns a normalised write
\* result: not the backend's acknowledgement, not None, and no error once
\* the backend has acknowledged the write.
C9_WriteResultReturned ==
    last.op \in Writes =>
        \/ result.type = "WriteOpResult"
        \/ IsRaise(raw_result) /\ result = raw_result

\* C10: the normaliser gives n = documents affected and ok = (n > 0) for
\* every insert-one, insert-many, delete, update and bulk acknowledgement,
\* and raises for any other shape.
C10_NormalizerCounts ==
    last.op \in {"trans", "decorators"} =>
        LET n == CASE raw_result.type = "InsertOneResult" -> 1
                   [] raw_result.type = "InsertManyResult" -> Len(raw_result.inserted_ids)
                   [] raw_result.type \in {"DeleteResult", "UpdateResult"} -> raw_result.n
                   [] raw_result.type = "BulkWriteResult" ->
                        raw_result.inserted_count + raw_result.upserted_count
                        + raw_result.modified_count + raw_result.deleted_count
                   [] OTHER -> -1
        IN  IF n >= 0
            THEN /\ result.type = "WriteOpResult"
                 /\ result.n = n
                 /\ result.ok = (n > 0)
            ELSE IsRaise(result)

\* C11: under the Unique policy get(key) fails with KeyError when no document
\* matches the key's query, returns the document when exactly one matches,
\* fails with KeyNotUniqueError when two or more match, and never pulls more
\* than two documents out of the cursor.
C11_UniqueGet ==
    (last.op = "get" /\ kind = "unique") =>
        LET hits == MatchIdx(prev, merge_with_filt(filt, <<last.k>>)) IN
        /\ hits = {} => result.type = "KeyError"
        /\ Cardinality(hits) = 1 =>
              /\ result.type = "doc"
              /\ \A i \in hits : result.doc = project(prev[i], data_fields)
        /\ Cardinality(hits) >= 2 => result.type = "KeyNotUniqueError"
        /\ result.consumed <= 2
        /\ result.consumed <= Cardinality(hits)

C11_Witness ==
    /\ last.op = "get"
    /\ kind = "unique"
    /\ Cardinality(MatchIdx(prev, merge_with_filt(filt, <<last.k>>))) >= 2
    /\ result.type = "KeyNotUniqueError"
    /\ result.consumed = 2

\* two mappings give no field two different values
Agree(a, b) == \A x \in DOMAIN a \cap DOMAIN b : a[x] = b[x]

StripId(d) == [x \in DOMAIN d \ {ID_KEY} |-> d[x]]

\* scope, key and values of the call are valid and free of collisions, and
\* no identity is supplied by the caller
PlainMultipleSet ==
    /\ last.op = "set"
    /\ kind = "multiple"
    /\ last.vals # <<>>
    /\ ID_KEY \notin DOMAIN last.k
    /\ Agree(filt, last.k)
    /\ \A i \in 1..Len(last.vals) :
          /\ ID_KEY \notin DOMAIN last.vals[i]
          /\ Agree(filt, last.vals[i])
          /\ Agree(last.k, last.vals[i])
          /\ ~HasOperatorShapedValue(last.vals[i])

\* C12: under the Multiple policy set(key, value) removes every in-scope
\* document matching key and inserts the given value(s): right afterwards
\* the in-scope documents matching key are exactly the given ones, for a
\* single mapping and for a collection of mappings alike.
C12_MultipleSetReplaces ==
    PlainMultipleSet =>
        LET now == SelectSeq(coll, LAMBDA d : Matches(d, filt) /\ Matches(d, last.k)) IN
        /\ ~IsRaise(result)
        /\ Len(now) = Len(last.vals)
        /\ \A i \in 1..Len(last.vals) :
              StripId(now[i]) = merge_with_filt(filt, <<last.k, last.vals[i]>>)

\* writer w is between the two backend calls of its set
MidSet(w) == pending[w].pc = "deleted"

\* C13: the Multiple set is not atomic: a get(key) that another client
\* makes after a writer's delete step for that key and before any insert
\* step observes no matching document, whatever matched key before and
\* whatever values are about to be inserted.
C13_ReaderSeesGap ==
    (/\ last.op = "get"
     /\ \E w \in Writers : MidSet(w) /\ pending[w].k = last.k
     /\ \A w \in Writers : pending[w].pc # "done") =>
        result.docs = <<>>

C13_Witness ==
    /\ last.op = "get"
    /\ result.type = "list"
    /\ result.docs = <<>>
    /\ find(prev, merge_with_filt(filt, <<last.k>>)) # <<>>
    /\ \E w \in Writers :
          /\ MidSet(w)
          /\ pending[w].k = last.k
          /\ pending[w].vals # <<>>
          /\ \A u \in Writers \ {w} : pending[u].pc = "idle"

\* both writers set the same key, with values that collide with neither
\* the scope nor the key
SameKeyPlainSets ==
    /\ \A w \in Writers : pending[w].k = last.k /\ Agree(filt, pending[w].k)
    /\ \A w \in Writers : \A i \in 1..Len(pending[w].vals) :
          /\ Agree(filt, pending[w].vals[i])
          /\ Agree(pending[w].k, pending[w].vals[i])

Given(w) ==
    [i \in 1..Len(pending[w].vals) |->
        merge_with_filt(filt, <<pending[w].k, pending[w].vals[i]>>)]

\* C14: two concurrent Multiple sets of one key can leave neither writer's
\* values: when the second insert step lands on top of the documents the
\* first insert step wrote (both delete steps came earlier), the documents
\* matching the key are not exactly those of either call.
C14_NeitherWriterWins ==
    (/\ last.op = "set_insert"
     /\ ~IsRaise(raw_result)
     /\ \A w \in Writers : pending[w].pc = "done"
     /\ SameKeyPlainSets
     /\ find(prev, merge_with_filt(filt, <<last.k>>)) # <<>>) =>
        LET hits == find(coll, merge_with_filt(filt, <<last.k>>))
            now == [i \in 1..Len(hits) |-> StripId(hits[i])] IN
        \A w \in Writers :
            now # [i \in 1..Len(Given(w)) |-> StripId(Given(w)[i])]

C14_Witness ==
    /\ last.op = "set_insert"
    /\ ~IsRaise(raw_result)
    /\ \A w \in Writers : pending[w].pc = "done"
    /\ SameKeyPlainSets
    /\ find(prev, merge_with_filt(filt, <<last.k>>)) # <<>>
    /\ Len(find(coll, merge_with_filt(filt, <<last.k>>))) = 2

\* C15: with no write in between, count equals the number of documents
\* iteration yields: len(store) is the number of keys a reader iterates,
\* for every scope and key projection, and len(view) is the number of
\* documents the view iterates, for every scope, skip and limit.
C15_CountIsIterationLength ==
    /\ last.op = "len" =>
          \A kf \in KeyFieldInputs :
              result = Counted(Len(reader_iter(prev, filt, kf).docs))
    /\ last.op = "view_len" =>
          result = Counted(Len(view_iter(prev, filt, last.skip, last.limit).docs))

Pos(c, d) == CHOOSE n \in 1..Len(c) : c[n] = d

\* C16: iterating a view scoped to a predicate yields exactly the documents
\* of the collection that satisfy the predicate, each once, in the order
\* they were inserted, and the view counts that many.
C16_ScopedIteration ==
    (last.op = "view_iter" /\ last.skip = 0 /\ last.limit = NoLimit) =>
        LET it == result.docs IN
        /\ \A d \in Done(prev) : d \in Done(it) <=> Matches(d, filt)
        /\ Done(it) \subseteq Done(prev)
        /\ \A i, j \in 1..Len(it) :
              i < j => it[i] # it[j] /\ Pos(prev, it[i]) < Pos(prev, it[j])
        /\ view_len(prev, filt, 0, NoLimit) = Counted(Len(it))

C16_Witness ==
    /\ last.op = "view_iter"
    /\ last.skip = 0
    /\ last.limit = NoLimit
    /\ filt # EmptyMap
    /\ Len(prev) = 2
    /\ ~Matches(prev[1], filt)
    /\ result.docs = <<prev[2]>>

\* C17: contains(candidate) is true iff some document satisfies both the
\* scope and the candidate, on the collection view and on the reader, and
\* at most one matching document is read to decide it.
C17_ContainsIsConjunction ==
    last.op \in {"contains", "view_contains"} =>
        /\ result.value <=>
              \E d \in Done(prev) : Matches(d, filt) /\ Matches(d, last.k)
        /\ result.consumed <= 1

\* C18: on the base reader get(key) yields the in-scope documents matching
\* key, none, one or many, each reduced to the value projection, in
\* collection order; a key matching nothing yields the empty sequence.
C18_BaseGet ==
    (last.op = "get" /\ kind = "base") =>
        LET hits == SelectSeq(prev, LAMBDA d : Matches(d, filt) /\ Matches(d, last.k)) IN
        /\ result.type = "cursor"
        /\ result.docs = [i \in 1..Len(hits) |-> project(hits[i], data_fields)]

NoDocMatches(c, k) == \A d \in Done(c) : ~Matches(d, k)

\* v holds every field of k with k's value
Extends(v, k) == \A x \in DOMAIN k : x \in DOMAIN v /\ v[x] = k[x]

\* under Multiple, membership of a value or item built from a key that
\* matches no document is false
NoMatchMembership ==
    /\ (kind = "multiple" /\ last.op = "values_contains") =>
          \A k \in KeyInputs :
              (NoDocMatches(prev, k) /\ Extends(last.vals[1], k)) => ~result.value
    /\ (kind = "multiple" /\ last.op = "items_contains"
          /\ NoDocMatches(prev, last.k)) => ~result.value

Requested(d, kf, df) ==
    IF df.form = "none" THEN DOMAIN d \ kf ELSE (DOMAIN d \cap df.names) \ kf

\* C20: for every reader configuration and collection, items() yields one
\* (key, value) pair per in-scope document, the key part being the
\* document's key fields, the value part its remaining requested fields,
\* with no field in both.
C20_ItemsPartition ==
    last.op = "items" =>
        LET docs == find(prev, filt) IN
        /\ result.type = "pairs"
        /\ Len(result.pairs) = Len(docs)
        /\ \A i \in 1..Len(docs) :
              /\ result.pairs[i].key = Restrict(docs[i], last.key_fields)
              /\ result.pairs[i].value
                    = Restrict(docs[i], Requested(docs[i], last.key_fields, last.data_fields))
              /\ DOMAIN result.pairs[i].key \cap DOMAIN result.pairs[i].value = {}

\* C28: whenever set, delete, append, extend or a Multiple-policy set
\* raises an error, the collection holds exactly the documents it held
\* before the call.
C28_ErrorLeavesCollection ==
    (last.op \in Writes /\ IsRaise(result)) => coll = prev

\* the value payloads a read handed back
Payloads ==
    IF IsRaise(result) THEN {}
    ELSE IF last.op = "items"
         THEN {result.pairs[i].value : i \in 1..Len(result.pairs)}
    ELSE {result.docs[i] : i \in 1..Len(result.docs)}

\* C21: when the value projection is given without mentioning _id, no
\* value payload contains _id: not a document returned by get(key), not an
\* element of values(), not the value part of a pair of items().
C21_NoIdentityInValues ==
    (/\ last.op \in {"reader_get", "values", "items"}
     /\ last.data_fields.form # "none"
     /\ ID_KEY \notin last.data_fields.names) =>
        \A d \in Payloads : ID_KEY \notin DOMAIN d

Reads ==
    {"get", "reader_get", "contains", "keys", "len", "values", "items",
     "view_iter", "view_len", "view_contains", "values_contains",
     "items_contains"}

\* C25: iterate, count, contains, get, keys, values and items, membership
\* tests on the values and items views included, change neither the
\* collection's documents nor the store's scope and projections.
C25_ReadsChangeNothing ==
    [][last'.op \in Reads =>
          /\ coll' = coll
          /\ filt' = filt
          /\ pending'.key_projection = pending.key_projection
          /\ pending'.data_fields = pending.data_fields
          /\ pending'.items_projection = pending.items_projection]_vars

C25_Witness ==
    /\ last.op = "items"
    /\ result.type = "pairs"
    /\ Len(result.pairs) = 2
    /\ coll = prev
    /\ filt = EmptyMap

\* the last call passed a non-mapping where a key or value mapping is
\* required (an empty list is a legal value of a Multiple set)
NonMappingPassed ==
    /\ last.op \in {"get", "contains", "view_contains", "set", "append", "extend"}
    /\ \/ ~IsMapping(last.k)
       \/ \E i \in 1..Len(last.vals) :
             /\ ~IsMapping(last.vals[i])
             /\ ~(kind = "multiple" /\ last.op = "set"
                   /\ last.vals[i] = [form |-> "pairs", map |-> EmptyMap])

\* C24: a call passing a non-mapping where a key or value mapping is
\* required (get, contains, set, append, extend, the filter merge itself)
\* fails with an error, is never coerced into a filter or document, and
\* leaves the collection unchanged.
C24_NonMappingRejected ==
    NonMappingPassed => (IsRaise(result) /\ coll = prev)

RECURSIVE LeavesOf(_, _)
\* the (dot-path, flag) leaves of a nested dict
LeavesOf(items, prefix) ==
    UNION {IF IsDict(items[i].v)
           THEN LeavesOf(items[i].v.items, prefix \o items[i].k \o ".")
           ELSE {<<prefix \o items[i].k, items[i].v.flag>>} : i \in 1..Len(items)}

Names(l) == {l[i] : i \in 1..Len(l)}

\* C22: normalize_projection returns None for None; a string behaves as
\* the one-element list; a non-empty list of names gives the map of each
\* name to true, plus _id to false unless _id is among the names; a map
\* gives its dot-path-flattened map with the boolean leaves preserved; an
\* empty list is returned as it is.
C22_NormalizeProjection ==
    last.op = "normalize_projection" =>
        LET p == raw_result IN
        /\ p.form = "None" => result.type = "None"
        /\ p.form = "str" =>
              result = normalize_projection([form |-> "list", names |-> <<p.name>>])
        /\ (p.form = "list" /\ p.names # <<>>) =>
              /\ result.type = "dict"
              /\ DOMAIN result.map = Names(p.names) \cup {ID_KEY}
              /\ \A n \in Names(p.names) : result.map[n]
              /\ ID_KEY \notin Names(p.names) => ~result.map[ID_KEY]
        /\ (p.form = "list" /\ p.names = <<>>) =>
              (result.type = "list" /\ result.names = p.names)
        /\ p.form = "dict" =>
              /\ result.type = "dict"
              /\ DOMAIN result.map = {l[1] : l \in LeavesOf(p.items, "")}
              /\ \A path \in DOMAIN result.map :
                    <<path, result.map[path]>> \in LeavesOf(p.items, "")

C22_Witness ==
    /\ last.op = "normalize_projection"
    /\ raw_result.form = "dict"
    /\ result.type = "dict"
    /\ DOMAIN result.map = {"a.b.c", ID_KEY}
    /\ ~result.map[ID_KEY]

\* C23: the keys of projection_union(p1, p2) are the dot-paths of either
\* flattened input; a path maps to false only when it is in both and false
\* in both; the union of a projection with itself is its flattening; the
\* union does not depend on the order of its operands.
C23_ProjectionUnion ==
    last.op = "projection_union" =>
        LET f1 == FlatDict(raw_result.items).map
            f2 == FlatDict(last.other).map IN
        /\ DOMAIN result.map = DOMAIN f1 \cup DOMAIN f2
        /\ \A path \in DOMAIN result.map :
              ~result.map[path] <=>
                  (/\ path \in DOMAIN f1 /\ ~f1[path]
                   /\ path \in DOMAIN f2 /\ ~f2[path])
        /\ raw_result.items = last.other => result.map = f1
        /\ projection_union(last.other, raw_result.items) = result

C23_Witness ==
    /\ last.op = "projection_union"
    /\ raw_result.items = last.other
    /\ DOMAIN result.map = {"a.b", "a.c", ID_KEY}
    /\ ~result.map["a.c"]

RECURSIVE InOrder(_, _, _, _)
\* the recorded calls made one after the other on the store itself, up
\* to the first that raises
InOrder(c, f, tracks, nid) ==
    IF tracks = <<>> THEN c
    ELSE LET r == execute_call(c, f, Head(tracks), nid) IN
         IF IsRaise(result_mapper(r.ack)) THEN r.coll
         ELSE InOrder(r.coll, f, Tail(tracks), r.nextId)

\* C26: on a store whose write methods are tracked without execution, a
\* tracked call changes nothing (reads in the block see the old documents)
\* and appends exactly one entry to the track list; when the block exits,
\* or flush() is called, all tracked calls are executed in order and the
\* track list is empty afterwards.
C26_TrackedThenExecuted ==
    [][/\ last'.op = "track" =>
             /\ coll' = coll
             /\ pending'.tracks = Append(pending.tracks, last'.call)
       /\ (last'.op = "get" /\ last.op = "track") =>
             result' = Cursor(getitem(prev, filt, last'.k))
       /\ (kind = "tracked" /\ last'.op \in {"exit", "flush"}) =>
             /\ coll' = InOrder(coll, filt, pending.tracks, nextId)
             /\ pending'.tracks = <<>>]_vars

\* C29: if the body of a with block of a tracked store raises, that
\* exception reaches the caller after the block exits, whether or not
\* tracked calls were recorded.
C29_BodyErrorReachesCaller ==
    (last.op = "exit" /\ last.body_raised) => result = Raise("RuntimeError")

\* C30: for every sequence of set, delete, append and extend calls on a
\* store wrapped with with_bulk_writes, the empty one included, the
\* collection after commit is the one the same calls made in order on the
\* unwrapped store give, and the commit raises no error.
C30_BulkRefinesImmediate ==
    (kind = "bulk" /\ last.op = "flush") =>
        /\ ~IsRaise(result)
        /\ coll = InOrder(prev, filt, last.tracks, last.nid)

\* C27: every modification of a PersistentDict or PersistentList, at any
\* nesting depth and after any earlier modifications (so also of a dict or
\* list assigned or appended after construction), notifies the root
\* container exactly once with the root object's content after the
\* modification; the data last passed to persist_data is the current content.
C27_EveryModificationPersisted ==
    last.op \in {"setitem", "delitem", "append", "clear"} =>
        /\ result.count = 1
        /\ result.data = Content(pending)
        /\ raw_result = Content(pending)

====
